---- MODULE Spec2Model ----
(***************************************************************************)
(* AlSurfaceLayerBRDFImpl (renderer/modeling/bsdf/alsurfacelayerbrdf.cpp): *)
(* a rough Fresnel-weighted coating over a nested substrate BSDF.          *)
(*                                                                         *)
(* Numbers are exact rationals <<n, d>> (d > 0, lowest terms): the float   *)
(* operations of the source are modelled without rounding, overflow or     *)
(* underflow.  Directions are unit vectors of the plane of incidence       *)
(* (local x, y; y is the shading normal), kept as integer pairs of length  *)
(* UnitLen.  The collaborators that are not part of this file (the         *)
(* microfacet distributions, the Fresnel functors, the substrate BSDF, the *)
(* sampling context, the closure tree) answer with the values held in      *)
(* `world`, and every call made to them is appended to `calls` with the    *)
(* arguments it was given.                                                 *)
(***************************************************************************)
EXTENDS Integers, Sequences, FiniteSets, TLC

VARIABLES
    values,             \* InputValues: the per-shading-point buffer
    closures,           \* CompositeSurfaceClosure built from values.m_substrate
    world,              \* the collaborators' answers at this shading point
    sampling_context,   \* the caller's sampling cursor
    sample,             \* BSDFSample, in/out argument of sample()
    args,               \* the arguments the integrator evaluates with
    ev,                 \* what the last evaluate() returned and wrote
    pd,                 \* what the last evaluate_pdf() returned
    sm,                 \* what the last sample() was given and did
    calls,              \* collaborator calls made by prepare_inputs, in order
    status              \* whether prepare_inputs has run on the buffer, and how it ended

vars == <<values, closures, world, sampling_context, sample, args, ev, pd, sm, calls, status>>

----------------------------------------------------------------------------
(* Exact rational arithmetic standing for the source's float arithmetic.   *)

RECURSIVE GCD(_, _)
GCD(a, b) == IF b = 0 THEN a ELSE GCD(b, a % b)

AbsInt(a) == IF a < 0 THEN -a ELSE a

Rat(n, d) ==
    LET s == IF d < 0 THEN -1 ELSE 1
        g == GCD(AbsInt(n), AbsInt(d))
    IN  <<(s * n) \div g, (s * d) \div g>>

Zero == <<0, 1>>
One  == <<1, 1>>
Four == <<4, 1>>

RAdd(a, b) == Rat(a[1] * b[2] + b[1] * a[2], a[2] * b[2])
RSub(a, b) == Rat(a[1] * b[2] - b[1] * a[2], a[2] * b[2])
RMul(a, b) == Rat(a[1] * b[1], a[2] * b[2])
RDiv(a, b) == Rat(a[1] * b[2], a[2] * b[1])
RLess(a, b) == a[1] * b[2] < b[1] * a[2]
RLeq(a, b) == a[1] * b[2] <= b[1] * a[2]
RAbs(a) == <<AbsInt(a[1]), a[2]>>
RMax(a, b) == IF RLess(a, b) THEN b ELSE a

\* foundation::square
square(a) == RMul(a, a)

\* foundation::lerp(a, b, t) = (1 - t) * a + t * b
lerp(a, b, t) == RAdd(RMul(RSub(One, t), a), RMul(t, b))

\* foundation::saturate: clamp to [0, 1]
saturate(a) == IF RLess(a, Zero) THEN Zero ELSE IF RLess(One, a) THEN One ELSE a

----------------------------------------------------------------------------
(* Spectra: one rational per channel.                                      *)

Channels == {1, 2}

SpectrumOf(a, b) == <<a, b>>
Black == SpectrumOf(Zero, Zero)

\* Spectrum::operator*=(float)
SpectrumScale(s, k) == [c \in Channels |-> RMul(s[c], k)]
\* Spectrum::operator*=(Spectrum)
SpectrumMul(s, t) == [c \in Channels |-> RMul(s[c], t[c])]
\* foundation::madd(a, b, c): a += b * c
madd(a, b, k) == [c \in Channels |-> RAdd(a[c], RMul(b[c], k))]
\* foundation::max_value
max_value(s) == RMax(s[1], s[2])

----------------------------------------------------------------------------
(* Directions.                                                             *)

UnitLen == 5 * 5 * 5

\* The integer points of the circle of radius 5, scaled to length UnitLen.
BaseDirs ==
    { <<25 * x, 25 * y>> : <<x, y>> \in
        { <<0, 5>>, <<3, 4>>, <<4, 3>>, <<5, 0>>, <<4, -3>>, <<3, -4>>,
          <<0, -5>>, <<-3, -4>>, <<-4, -3>>, <<-5, 0>>, <<-4, 3>>, <<-3, 4>> } }

VY(v) == Rat(v[2], UnitLen)
VNeg(v) == <<-v[1], -v[2]>>
VAdd(v, w) == <<v[1] + w[1], v[2] + w[2]>>
IDot(v, w) == v[1] * w[1] + v[2] * w[2]
ICross(v, w) == v[1] * w[2] - v[2] * w[1]
\* foundation::dot of two unit vectors
dot(v, w) == Rat(IDot(v, w), UnitLen * UnitLen)

\* foundation::normalize, on the sums whose direction is a base direction
normalize(v) == CHOOSE b \in BaseDirs : ICross(b, v) = 0 /\ IDot(b, v) > 0
Normalizable(v) == \E b \in BaseDirs : ICross(b, v) = 0 /\ IDot(b, v) > 0

\* foundation::reflect(v, n) = 2 (v . n) n - v, for unit v and n
reflect(v, n) ==
    LET k == 2 * IDot(v, n)
    IN  << (k * n[1]) \div (UnitLen * UnitLen) - v[1],
           (k * n[2]) \div (UnitLen * UnitLen) - v[2] >>

\* foundation::improve_normalization leaves an exactly unit vector unchanged
improve_normalization(v) == v

\* Basis3f: a rotation of the plane by a multiple of 90 degrees
Bases == {0, 1, 2, 3}
RECURSIVE Rot(_, _)
Rot(k, v) == IF k = 0 THEN v ELSE Rot(k - 1, <<-v[2], v[1]>>)
transform_to_parent(basis, v) == Rot(basis, v)
transform_to_local(basis, v) == Rot((4 - basis) % 4, v)

----------------------------------------------------------------------------
(* ScatteringMode                                                          *)

AllModes == {"Diffuse", "Glossy", "Specular"}
has_glossy(modes) == "Glossy" \in modes

----------------------------------------------------------------------------
(* Closure tree and InputValues.                                           *)

\* ClosureID (renderer/kernel/shading/closures.h): tags at or above
\* FirstLayeredClosure are the layered closures.
FirstLayeredClosure == 2
MaxClosureID == 3
ClosureIDs == 0 .. MaxClosureID

NullBSDF == "null"
SubstrateBSDF == "osl_bsdf"
NoData == "unallocated"
SubstrateData == "substrate_closure_data"

Beckmann == "Beckmann"
GGX == "GGX"
Dielectric == "Dielectric"
Metallic == "Metallic"

\* Grid of the scalar inputs: k / GridDen.
GridDen == 4
MaxClosures == 3

Roughnesses == { Rat(k, GridDen) : k \in 1 .. GridDen }
Anisotropies == { Rat(k, GridDen) : k \in 0 .. GridDen }

Half == <<1, 2>>
Two == <<2, 1>>

\* m_substrate: the raw closure, given by the tags of its top-level entries
RawClosures == UNION { [1 .. n -> ClosureIDs] : n \in 0 .. MaxClosures }

\* CompositeSurfaceClosure(basis, m_substrate): one entry per top-level closure;
\* m_injected is the BSDF that inject_layered_closure_values stored in the
\* entry's input values, NullBSDF when nothing was injected.
CompositeSurfaceClosure(raw) ==
    [i \in 1 .. Len(raw) |-> [cid |-> raw[i], m_injected |-> NullBSDF]]

Unprepared == [m_alpha_x |-> Zero, m_alpha_y |-> Zero]

\* lines 120-132 with the branch on m_anisotropy < 0.5 inverted
PrecomputedSwapped(v) ==
    LET alpha == square(v.m_roughness)
        t == square(RSub(RMul(Two, v.m_anisotropy), One))
    IN  IF v.m_anisotropy = Half
        THEN [m_alpha_x |-> alpha, m_alpha_y |-> alpha]
        ELSE IF RLess(v.m_anisotropy, Half)
             THEN [m_alpha_x |-> alpha, m_alpha_y |-> lerp(alpha, One, t)]
             ELSE [m_alpha_x |-> lerp(alpha, One, t), m_alpha_y |-> alpha]

\* prepare_inputs, lines 118-132: the precomputed block
Precomputed(v) ==
    LET alpha == square(v.m_roughness)
        t == square(RSub(RMul(Two, v.m_anisotropy), One))
    IN  IF v.m_anisotropy = Half
        THEN [m_alpha_x |-> alpha, m_alpha_y |-> alpha]
        ELSE IF RLess(v.m_anisotropy, Half)
             THEN [m_alpha_x |-> lerp(alpha, One, t), m_alpha_y |-> alpha]
             ELSE [m_alpha_x |-> alpha, m_alpha_y |-> lerp(alpha, One, t)]

\* line 148
ShouldInject(cid) == cid >= FirstLayeredClosure

\* lines 144-150: the injection loop over entries i .. e, returning the tree
\* and the calls it made
RECURSIVE InjectLoop(_, _, _, _)
InjectLoop(c, bsdf, i, log) ==
    IF i > Len(c) THEN [closures |-> c, calls |-> log]
    ELSE IF ShouldInject(c[i].cid)
         THEN InjectLoop([c EXCEPT ![i].m_injected = bsdf], bsdf, i + 1,
                  Append(log, [fn |-> "inject_layered_closure_values",
                               cid |-> c[i].cid, bsdf |-> bsdf, entry |-> i]))
         ELSE InjectLoop(c, bsdf, i + 1, log)

\* the events of lines 135-140
BuildCalls(v) ==
    << [fn |-> "osl_mem_alloc"],
       [fn |-> "CompositeSurfaceClosure", raw |-> v.m_substrate] >>

AssertCall(v) == [fn |-> "assert", bsdf |-> v.m_osl_bsdf]

PrepareCall(v) ==
    [fn |-> "prepare_inputs", bsdf |-> v.m_osl_bsdf, data |-> SubstrateData]

\* the substrate prepared before the injections
PrepareTailEarly(v, ndebug) ==
    LET c0 == CompositeSurfaceClosure(v.m_substrate)
        log0 == IF ndebug THEN BuildCalls(v) ELSE Append(BuildCalls(v), AssertCall(v))
        r == InjectLoop(c0, v.m_osl_bsdf, 1, Append(log0, PrepareCall(v)))
    IN  [closures |-> r.closures, calls |-> r.calls]

\* lines 134-153: the tree, the assertion, the injections, then the substrate
PrepareTail(v, ndebug) ==
    LET c0 == CompositeSurfaceClosure(v.m_substrate)
        log0 == IF ndebug THEN BuildCalls(v) ELSE Append(BuildCalls(v), AssertCall(v))
        r == InjectLoop(c0, v.m_osl_bsdf, 1, log0)
    IN  [closures |-> r.closures, calls |-> Append(r.calls, PrepareCall(v))]

\* prepare_inputs on a buffer whose m_osl_bsdf is set: lines 116-153
PreparedValues(v) ==
    [v EXCEPT !.m_precomputed = Precomputed(v),
              !.m_substrate_closure_data = SubstrateData]

----------------------------------------------------------------------------
(* The private helpers, lines 351-431.                                     *)

\* lines 367-368
FresnelWo(wo) == IF RLess(VY(wo), Zero) THEN VNeg(wo) ELSE wo

\* the functor call of lines 372-376 or 380-384: arguments given
FresnelCall(v, wo, m) ==
    IF v.m_fresnel_mode = Dielectric
    THEN [fn |-> "FresnelDielectricFun", reflectance |-> v.m_reflectance,
          eta_above |-> One, eta_below |-> RDiv(One, v.m_ior),
          o |-> FresnelWo(wo), h |-> m, n |-> <<0, UnitLen>>]
    ELSE [fn |-> "FresnelFriendlyConductorFun",
          normal_reflectance |-> v.m_normal_reflectance,
          edge_tint |-> v.m_edge_tint, reflectance |-> One,
          o |-> FresnelWo(wo), h |-> m, n |-> <<0, UnitLen>>]

\* the spectrum fresnel_term leaves in `value`, lines 370-386
FresnelValue(v, w) ==
    IF v.m_fresnel_mode = Dielectric
    THEN w.fresnel
    ELSE SpectrumMul(w.fresnel, v.m_reflectance)

\* the layer weight without the clamp
FresnelWeightUnclamped(v, w) == max_value(FresnelValue(v, w))

\* line 388
FresnelWeight(v, w) == saturate(max_value(FresnelValue(v, w)))

\* fresnel_term, lines 359-389
fresnel_term(v, w, wo, m) ==
    [value |-> FresnelValue(v, w),
     ret   |-> FresnelWeight(v, w),
     calls |-> << FresnelCall(v, wo, m) >>]

\* half_reflection_vector, lines 391-397
half_reflection_vector(wi, wo) ==
    LET h == normalize(VAdd(wi, wo))
    IN  IF RLess(VY(h), Zero) THEN VNeg(h) ELSE h

\* pick_mdf, lines 351-357
pick_mdf(distribution) == IF distribution = Beckmann THEN "BeckmannMDF" ELSE "GGXMDF"

\* line 407
ReflectionDenom(wi, wo) == RAbs(RMul(Four, RMul(VY(wo), VY(wi))))

\* line 416: D * G / denom
ReflectionScale(w, denom) == RDiv(RMul(w.mdf_D, w.mdf_G), denom)

\* evaluate_reflection, lines 399-417
evaluate_reflection(v, w, mdf, wi, wo, m, value) ==
    LET denom == ReflectionDenom(wi, wo)
        ax == v.m_precomputed.m_alpha_x
        ay == v.m_precomputed.m_alpha_y
    IN  IF denom = Zero
        THEN [value |-> Black, calls |-> << >>]
        ELSE [value |-> SpectrumScale(value, ReflectionScale(w, denom)),
              calls |-> << [fn |-> "mdf.D", mdf |-> mdf, h |-> m,
                            alpha_x |-> ax, alpha_y |-> ay],
                           [fn |-> "mdf.G", mdf |-> mdf, incoming |-> wi,
                            outgoing |-> wo, h |-> m,
                            alpha_x |-> ax, alpha_y |-> ay] >>]

\* reflection_pdf, lines 419-431
reflection_pdf(v, w, mdf, wo, m) ==
    LET cos_wom == dot(wo, m)
    IN  IF cos_wom = Zero
        THEN [ret |-> Zero, calls |-> << >>]
        ELSE [ret |-> RMul(RDiv(One, RMul(Four, RAbs(cos_wom))), w.mdf_pdf),
              calls |-> << [fn |-> "mdf.pdf", mdf |-> mdf, outgoing |-> wo, h |-> m,
                            alpha_x |-> v.m_precomputed.m_alpha_x,
                            alpha_y |-> v.m_precomputed.m_alpha_y] >>]

----------------------------------------------------------------------------
(* evaluate and evaluate_pdf, lines 214-310.                               *)

\* the gate on the mode mask alone
GatedMaskOnly(modes, wi, wo) == ~has_glossy(modes)

\* line 230
Gated(modes, wi, wo) ==
    (~has_glossy(modes)) \/ RLess(RMul(VY(wi), VY(wo)), Zero)

\* line 283
PdfGated(modes, wi, wo) ==
    (~has_glossy(modes)) \/ RLess(RMul(VY(wi), VY(wo)), Zero)

\* the arguments of m_osl_bsdf->evaluate, lines 232-241 and 255-264
SubstrateEvaluateCall(v, q) ==
    [fn |-> "bsdf.evaluate", bsdf |-> v.m_osl_bsdf,
     data |-> v.m_substrate_closure_data,
     adjoint |-> q.adjoint, cosine_mult |-> FALSE,
     shading_basis |-> q.shading_basis,
     outgoing |-> q.outgoing, incoming |-> q.incoming, modes |-> q.modes]

\* the arguments of m_osl_bsdf->evaluate_pdf, lines 285-291 and 301-307
SubstratePdfCall(v, q) ==
    [fn |-> "bsdf.evaluate_pdf", bsdf |-> v.m_osl_bsdf,
     data |-> v.m_substrate_closure_data,
     shading_basis |-> q.shading_basis,
     outgoing |-> q.outgoing, incoming |-> q.incoming, modes |-> q.modes]

\* the substrate weighted by the layer weight itself
SubstrateWeightSame(layer_weight) == layer_weight

\* line 253
SubstrateWeight(layer_weight) == RSub(One, layer_weight)

\* lines 250-264
Blend(layer_weight, coating_pdf, substrate_pdf) ==
    RAdd(RMul(layer_weight, coating_pdf),
         RMul(substrate_pdf, SubstrateWeight(layer_weight)))

\* evaluate_pdf leaving the substrate's density unweighted
PdfBlendUnweighted(layer_probability, coating_pdf, substrate_pdf) ==
    RAdd(RMul(layer_probability, coating_pdf), substrate_pdf)

\* lines 299-307
PdfBlend(layer_probability, coating_pdf, substrate_pdf) ==
    RAdd(RMul(layer_probability, coating_pdf),
         RMul(substrate_pdf, RSub(One, layer_probability)))

\* evaluate, lines 214-268
evaluate(v, w, q) ==
    LET wi == transform_to_local(q.shading_basis, q.incoming)
        wo == transform_to_local(q.shading_basis, q.outgoing)
    IN  IF Gated(q.modes, wi, wo)
        THEN [value |-> w.sub_value, probability |-> w.sub_density,
              calls |-> << SubstrateEvaluateCall(v, q) >>]
        ELSE
        LET m == half_reflection_vector(wi, wo)
            f == fresnel_term(v, w, wo, m)
            mdf == pick_mdf(v.m_distribution)
            r == evaluate_reflection(v, w, mdf, wi, wo, m, f.value)
            p == reflection_pdf(v, w, mdf, wo, m)
        IN  [value |-> madd(r.value, w.sub_value, SubstrateWeight(f.ret)),
             probability |-> Blend(f.ret, p.ret, w.sub_density),
             calls |-> f.calls \o r.calls \o p.calls
                       \o << SubstrateEvaluateCall(v, q) >>]

\* evaluate_pdf, lines 270-310
evaluate_pdf(v, w, q) ==
    LET wi == transform_to_local(q.shading_basis, q.incoming)
        wo == transform_to_local(q.shading_basis, q.outgoing)
    IN  IF PdfGated(q.modes, wi, wo)
        THEN [probability |-> w.sub_pdf,
              calls |-> << SubstratePdfCall(v, q) >>]
        ELSE
        LET m == half_reflection_vector(wi, wo)
            f == fresnel_term(v, w, wo, m)
            mdf == pick_mdf(v.m_distribution)
            p == reflection_pdf(v, w, mdf, wo, m)
        IN  [probability |-> PdfBlend(f.ret, p.ret, w.sub_pdf),
             calls |-> f.calls \o p.calls \o << SubstratePdfCall(v, q) >>]

NoResult == [done |-> FALSE]

----------------------------------------------------------------------------
(* sample, lines 156-212.                                                  *)

NoMode == "None"
GlossyMode == "Glossy"

\* SamplingContext::split_in_place(4, 1) followed by next2<Vector4f>():
\* the next four values of the path's sequence, as one block
BlockSizeThree == 1 + 2
BlockSize == 4
NextBlock(ctx) == [i \in 1 .. BlockSize |-> ctx.stream[ctx.pos + i]]
AfterBlock(ctx) == [ctx EXCEPT !.pos = ctx.pos + BlockSize]

\* the layer chosen when the random is at most the probability
ChooseLayerNonStrict(s4, layer_probability) == RLeq(s4, layer_probability)

\* line 182
ChooseLayer(s4, layer_probability) == RLess(s4, layer_probability)

\* line 186
NullSample(wi, wo) == RLeq(RMul(VY(wi), VY(wo)), Zero)

\* the arguments of m_osl_bsdf->sample, lines 205-210
SubstrateSampleCall(v, ctx, adjoint) ==
    [fn |-> "bsdf.sample", bsdf |-> v.m_osl_bsdf,
     data |-> v.m_substrate_closure_data,
     sampling_context |-> ctx, adjoint |-> adjoint, cosine_mult |-> FALSE]

\* what the substrate's sample leaves in the BSDFSample and in the cursor
SubstrateSampled(w, smp) ==
    [smp EXCEPT !.m_value = w.sub_sample.m_value,
                !.m_probability = w.sub_sample.m_probability,
                !.m_mode = w.sub_sample.m_mode,
                !.m_incoming = w.sub_sample.m_incoming]
SubstrateAdvanced(w, ctx) == [ctx EXCEPT !.pos = ctx.pos + w.sub_draws]

\* lines 168-177
MdfSampleCall(v, wo, s) ==
    [fn |-> "mdf.sample", mdf |-> pick_mdf(v.m_distribution), outgoing |-> wo,
     s |-> <<s[1], s[2], s[3]>>,
     alpha_x |-> v.m_precomputed.m_alpha_x, alpha_y |-> v.m_precomputed.m_alpha_y]

\* the coating branch falling through to the substrate on a null sample
CoatingBranchFallthrough(v, w, ctx, adjoint, smp, wo, m, f) ==
    LET wi == improve_normalization(reflect(wo, m))
        mdf == pick_mdf(v.m_distribution)
        r == evaluate_reflection(v, w, mdf, wi, wo, m, f.value)
        p == reflection_pdf(v, w, mdf, wo, m)
    IN  IF NullSample(wi, wo)
        THEN [sample |-> SubstrateSampled(w, smp),
              sampling_context |-> SubstrateAdvanced(w, ctx),
              branch |-> "coating", null |-> TRUE,
              calls |-> << SubstrateSampleCall(v, ctx, adjoint) >>]
        ELSE [sample |-> [smp EXCEPT
                  !.m_value = r.value,
                  !.m_probability = p.ret,
                  !.m_mode = GlossyMode,
                  !.m_incoming = transform_to_parent(smp.m_shading_basis, wi),
                  !.m_differentials = smp.m_differentials + 1],
              sampling_context |-> ctx,
              branch |-> "coating", null |-> FALSE,
              calls |-> r.calls \o p.calls]

\* lines 184-200; smp already holds the Fresnel value written at line 180
CoatingBranch(v, w, ctx, adjoint, smp, wo, m, f) ==
    LET wi == improve_normalization(reflect(wo, m))
        mdf == pick_mdf(v.m_distribution)
        r == evaluate_reflection(v, w, mdf, wi, wo, m, f.value)
        p == reflection_pdf(v, w, mdf, wo, m)
    IN  IF NullSample(wi, wo)
        THEN [sample |-> smp, sampling_context |-> ctx,
              branch |-> "coating", null |-> TRUE, calls |-> << >>]
        ELSE [sample |-> [smp EXCEPT
                  !.m_value = r.value,
                  !.m_probability = p.ret,
                  !.m_mode = GlossyMode,
                  !.m_incoming = transform_to_parent(smp.m_shading_basis, wi),
                  !.m_differentials = smp.m_differentials + 1],
              sampling_context |-> ctx,
              branch |-> "coating", null |-> FALSE,
              calls |-> r.calls \o p.calls]

\* lines 204-210
SubstrateBranch(v, w, ctx, adjoint, smp) ==
    [sample |-> SubstrateSampled(w, smp),
     sampling_context |-> SubstrateAdvanced(w, ctx),
     branch |-> "substrate", null |-> FALSE,
     calls |-> << SubstrateSampleCall(v, ctx, adjoint) >>]

\* sample, lines 156-212
SampleOp(v, w, ctx0, adjoint, smp0) ==
    LET wo == transform_to_local(smp0.m_shading_basis, smp0.m_outgoing)
        s == NextBlock(ctx0)
        ctx == AfterBlock(ctx0)
        m == w.mdf_sample
        f == fresnel_term(v, w, wo, m)
        smp == [smp0 EXCEPT !.m_value = f.value]
        b == IF ChooseLayer(s[BlockSize], f.ret)
             THEN CoatingBranch(v, w, ctx, adjoint, smp, wo, m, f)
             ELSE SubstrateBranch(v, w, ctx, adjoint, smp)
    IN  [sample |-> b.sample, sampling_context |-> b.sampling_context,
         branch |-> b.branch, null |-> b.null,
         s |-> s, m |-> m, layer_probability |-> f.ret,
         calls |-> << MdfSampleCall(v, wo, s) >> \o f.calls \o b.calls]

----------------------------------------------------------------------------
(* The inputs.                                                             *)

RawValues(roughness, anisotropy, distribution, fresnel_mode, reflectance, raw, bsdf) ==
    [m_substrate |-> raw, m_osl_bsdf |-> bsdf,
     m_distribution |-> distribution,
     m_roughness |-> roughness, m_anisotropy |-> anisotropy,
     m_fresnel_mode |-> fresnel_mode, m_reflectance |-> reflectance,
     m_ior |-> <<3, 2>>,
     m_normal_reflectance |-> SpectrumOf(<<9, 10>>, <<1, 2>>),
     m_edge_tint |-> SpectrumOf(One, <<3, 4>>),
     m_precomputed |-> Unprepared,
     m_substrate_closure_data |-> NoData]

\* the material settings the queries run with
Materials ==
    { RawValues(<<1, 2>>, Half, Beckmann, Dielectric, SpectrumOf(One, One),
                <<0, FirstLayeredClosure>>, SubstrateBSDF),
      RawValues(<<1, 4>>, One, GGX, Metallic, SpectrumOf(Half, One),
                <<1>>, SubstrateBSDF) }

\* answers of the Fresnel functor
FresnelAnswers ==
    { Black, SpectrumOf(Half, <<1, 4>>), SpectrumOf(One, One),
      SpectrumOf(<<3, 2>>, Half) }

\* answers of the distribution: D, G and the half-vector density
MdfAnswers ==
    { [mdf_D |-> Zero, mdf_G |-> One, mdf_pdf |-> Zero],
      [mdf_D |-> Two, mdf_G |-> Half, mdf_pdf |-> <<3, 1>>],
      [mdf_D |-> <<1, 3>>, mdf_G |-> One, mdf_pdf |-> <<1, 5>>] }

\* answers of the substrate's evaluate (value, density) and evaluate_pdf
SubstrateAnswers ==
    { [sub_value |-> Black, sub_density |-> Zero, sub_pdf |-> Zero],
      [sub_value |-> SpectrumOf(One, Half), sub_density |-> Half, sub_pdf |-> Half],
      [sub_value |-> SpectrumOf(<<1, 3>>, Two), sub_density |-> <<5, 1>>,
       sub_pdf |-> <<1, 4>>] }

UpperDirs == { d \in BaseDirs : d[2] > 0 }

World(f, d, sb, ss, m, ndebug) ==
    [NDEBUG |-> ndebug, fresnel |-> f,
     mdf_D |-> d.mdf_D, mdf_G |-> d.mdf_G, mdf_pdf |-> d.mdf_pdf,
     mdf_sample |-> m,
     sub_value |-> sb.sub_value, sub_density |-> sb.sub_density,
     sub_pdf |-> sb.sub_pdf,
     sub_sample |-> ss.sub_sample, sub_draws |-> ss.sub_draws]

DefaultMdf == [mdf_D |-> Zero, mdf_G |-> One, mdf_pdf |-> Zero]
DefaultSubstrate == [sub_value |-> Black, sub_density |-> Zero, sub_pdf |-> Zero]
DefaultSubstrateSample ==
    [sub_sample |-> [m_value |-> Black, m_probability |-> Zero,
                     m_mode |-> NoMode, m_incoming |-> <<0, 0>>],
     sub_draws |-> 0]

\* the random values are k / RandDen, k < RandDen
RandDen == 4
MaxStart == 1
StreamLen == MaxStart + BlockSize + 2
Streams ==
    { [i \in 1 .. StreamLen |-> Rat((i * k + k) % RandDen, RandDen)] : k \in 1 .. RandDen - 1 }

DefaultContext == [pos |-> 0, stream |-> [i \in 1 .. StreamLen |-> Zero]]

\* a BSDFSample as the integrator hands it to sample()
FreshSample(basis, outgoing) ==
    [m_shading_basis |-> basis, m_outgoing |-> outgoing,
     m_incoming |-> <<0, 0>>, m_value |-> Black, m_probability |-> Zero,
     m_mode |-> NoMode, m_differentials |-> 0]
StaleSample(basis, outgoing) ==
    [m_shading_basis |-> basis, m_outgoing |-> outgoing,
     m_incoming |-> <<UnitLen, 0>>, m_value |-> SpectrumOf(Two, Two),
     m_probability |-> <<7, 1>>, m_mode |-> "Specular", m_differentials |-> 0]

\* outgoing directions in the local frame: above, at and below the horizon
OutgoingDirs == BaseDirs

\* the (adjoint, cosine_mult, shading_basis) the integrator calls with
CallFlags ==
    { [adjoint |-> FALSE, cosine_mult |-> TRUE, shading_basis |-> 0],
      [adjoint |-> TRUE, cosine_mult |-> FALSE, shading_basis |-> 1] }

ModeMasks == { {"Diffuse"}, {"Glossy"}, AllModes }

\* incoming directions: the mirror images of wo about the base directions
\* that are not perpendicular to it
IncomingDirs(wo) == { reflect(wo, b) : b \in { b \in BaseDirs : IDot(wo, b) # 0 } }

Query(fl, wo, wi, modes) ==
    [adjoint |-> fl.adjoint, cosine_mult |-> fl.cosine_mult,
     shading_basis |-> fl.shading_basis,
     outgoing |-> transform_to_parent(fl.shading_basis, wo),
     incoming |-> transform_to_parent(fl.shading_basis, wi),
     modes |-> modes]

----------------------------------------------------------------------------
(* Operations.                                                             *)

\* prepare_inputs, lines 111-154.  A null m_osl_bsdf stops at the assertion
\* of line 143 in a debug build; with NDEBUG the calls of lines 149 and 153
\* go through a null pointer and the outcome is undefined.
PrepareInputs ==
    /\ status = "unprepared"
    /\ IF values.m_osl_bsdf # NullBSDF
       THEN LET t == PrepareTail(values, world.NDEBUG)
            IN  /\ values' = PreparedValues(values)
                /\ closures' = t.closures
                /\ calls' = t.calls
                /\ status' = "prepared"
       ELSE IF ~world.NDEBUG
       THEN /\ values' = PreparedValues(values)
            /\ closures' = CompositeSurfaceClosure(values.m_substrate)
            /\ calls' = Append(BuildCalls(values), AssertCall(values))
            /\ status' = "aborted"
       ELSE /\ values' = PreparedValues(values)
            /\ \E inj \in [1 .. Len(values.m_substrate) -> {NullBSDF, SubstrateBSDF}] :
                 closures' = [i \in 1 .. Len(values.m_substrate) |->
                                 [cid |-> values.m_substrate[i], m_injected |-> inj[i]]]
            /\ calls' = Append(BuildCalls(values), [fn |-> "undefined"])
            /\ status' = "undefined"
    /\ UNCHANGED <<world, sampling_context, sample, args, ev, pd, sm>>

\* the direction pairs the integrator evaluates: its own, and the pair a
\* sample() call produced
Queries ==
    {args} \cup
    IF sm.done /\ sample.m_mode # NoMode
    THEN { [args EXCEPT !.shading_basis = sample.m_shading_basis,
                        !.outgoing = sample.m_outgoing,
                        !.incoming = sample.m_incoming] }
    ELSE {}

\* normalize() needs a non-zero sum whose direction the model represents
CanEvaluate(q) ==
    LET wi == transform_to_local(q.shading_basis, q.incoming)
        wo == transform_to_local(q.shading_basis, q.outgoing)
    IN  Gated(q.modes, wi, wo) \/ Normalizable(VAdd(wi, wo))

Evaluate ==
    /\ status = "prepared"
    /\ \E q \in Queries :
         /\ CanEvaluate(q)
         /\ LET r == evaluate(values, world, q)
            IN  ev' = [done |-> TRUE, q |-> q, value |-> r.value,
                       probability |-> r.probability, calls |-> r.calls]
    /\ UNCHANGED <<values, closures, world, sampling_context, sample, args,
                   pd, sm, calls, status>>

EvaluatePdf ==
    /\ status = "prepared"
    /\ \E q \in Queries :
         /\ CanEvaluate(q)
         /\ LET r == evaluate_pdf(values, world, q)
            IN  pd' = [done |-> TRUE, q |-> q, probability |-> r.probability,
                       calls |-> r.calls]
    /\ UNCHANGED <<values, closures, world, sampling_context, sample, args,
                   ev, sm, calls, status>>

Sample ==
    /\ status = "prepared"
    /\ sampling_context.pos + BlockSize + world.sub_draws <= StreamLen
    /\ LET r == SampleOp(values, world, sampling_context, args.adjoint, sample)
       IN  /\ sample' = r.sample
           /\ sampling_context' = r.sampling_context
           /\ sm' = [done |-> TRUE, before |-> sample, cursor |-> sampling_context,
                     branch |-> r.branch, null |-> r.null, s |-> r.s, m |-> r.m,
                     layer_probability |-> r.layer_probability, calls |-> r.calls]
    /\ UNCHANGED <<values, closures, world, args, ev, pd, calls, status>>

----------------------------------------------------------------------------
(* Specifications.                                                         *)

\* a buffer as the host's parameter evaluator fills it, before prepare_inputs
InitPrepare ==
    /\ \E r \in Roughnesses, a \in Anisotropies, raw \in RawClosures,
          b \in {NullBSDF, SubstrateBSDF} :
         values = RawValues(r, a, Beckmann, Dielectric, SpectrumOf(One, One), raw, b)
    /\ closures = << >>
    /\ \E nd \in BOOLEAN :
         world = World(Black, DefaultMdf, DefaultSubstrate, DefaultSubstrateSample,
                       <<0, UnitLen>>, nd)
    /\ sampling_context = DefaultContext
    /\ sample = FreshSample(0, <<0, UnitLen>>)
    /\ args = Query([adjoint |-> FALSE, cosine_mult |-> TRUE, shading_basis |-> 0],
                    <<0, UnitLen>>, <<0, UnitLen>>, AllModes)
    /\ ev = NoResult
    /\ pd = NoResult
    /\ sm = NoResult
    /\ calls = << >>
    /\ status = "unprepared"

SpecPrepare == InitPrepare /\ [][PrepareInputs]_vars

\* a prepared buffer, and the arguments of one evaluate / evaluate_pdf query
InitEvaluate ==
    /\ \E raw \in Materials :
         /\ values = PreparedValues(raw)
         /\ closures = PrepareTail(raw, FALSE).closures
         /\ calls = PrepareTail(raw, FALSE).calls
    /\ \E f \in FresnelAnswers, d \in MdfAnswers, sb \in SubstrateAnswers :
         world = World(f, d, sb, DefaultSubstrateSample, <<0, UnitLen>>, FALSE)
    /\ \E fl \in CallFlags, wo \in OutgoingDirs, modes \in ModeMasks :
         \E wi \in IncomingDirs(wo) :
           /\ args = Query(fl, wo, wi, modes)
           /\ sample = FreshSample(fl.shading_basis, args.outgoing)
    /\ sampling_context = DefaultContext
    /\ ev = NoResult
    /\ pd = NoResult
    /\ sm = NoResult
    /\ status = "prepared"

NextEvaluate == Evaluate \/ EvaluatePdf

Spec == InitEvaluate /\ [][NextEvaluate]_vars

\* the material, the call flags, the BSDFSample as passed in and the
\* substrate's sampler, as sample() meets them
SampleSetups ==
    { [raw |-> RawValues(<<1, 2>>, Half, Beckmann, Dielectric, SpectrumOf(One, One),
                         <<0, FirstLayeredClosure>>, SubstrateBSDF),
       fl |-> [adjoint |-> FALSE, cosine_mult |-> TRUE, shading_basis |-> 0],
       stale |-> TRUE,
       ss |-> [sub_sample |-> [m_value |-> SpectrumOf(Half, Half),
                               m_probability |-> Two, m_mode |-> "Diffuse",
                               m_incoming |-> <<0, UnitLen>>],
               sub_draws |-> 2]],
      [raw |-> RawValues(<<1, 4>>, One, GGX, Metallic, SpectrumOf(Half, One),
                         <<1>>, SubstrateBSDF),
       fl |-> [adjoint |-> TRUE, cosine_mult |-> FALSE, shading_basis |-> 1],
       stale |-> FALSE,
       ss |-> DefaultSubstrateSample] }

\* a prepared buffer, a BSDFSample and a sampling cursor
InitSample ==
    /\ \E su \in SampleSetups :
         /\ values = PreparedValues(su.raw)
         /\ closures = PrepareTail(su.raw, FALSE).closures
         /\ calls = PrepareTail(su.raw, FALSE).calls
         /\ \E f \in FresnelAnswers, d \in MdfAnswers, m \in UpperDirs,
               sb \in { x \in SubstrateAnswers : x.sub_pdf = x.sub_density } :
              world = World(f, d, sb, su.ss, m, FALSE)
         /\ \E wo \in OutgoingDirs :
              /\ args = Query(su.fl, wo, <<0, UnitLen>>, AllModes)
              /\ sample = IF su.stale
                          THEN StaleSample(su.fl.shading_basis, args.outgoing)
                          ELSE FreshSample(su.fl.shading_basis, args.outgoing)
    /\ \E st \in Streams, p \in 0 .. MaxStart :
         sampling_context = [pos |-> p, stream |-> st]
    /\ ev = NoResult
    /\ pd = NoResult
    /\ sm = NoResult
    /\ status = "prepared"

NextSample == Sample \/ Evaluate

SpecSample == InitSample /\ [][NextSample]_vars

----------------------------------------------------------------------------
(* Properties.                                                             *)

\* local-frame directions of a query, and what the claims say about them
LocalWi(q) == transform_to_local(q.shading_basis, q.incoming)
LocalWo(q) == transform_to_local(q.shading_basis, q.outgoing)
OppositeHemispheres(q) == LocalWi(q)[2] * LocalWo(q)[2] < 0
GatedOut(q) == ("Glossy" \notin q.modes) \/ OppositeHemispheres(q)

CallsTo(log, fn) == { i \in DOMAIN log : log[i].fn = fn }

\* the substrate's evaluate / evaluate_pdf as the claims expect it to be called
ExpectedEvaluateCall(q) ==
    [fn |-> "bsdf.evaluate", bsdf |-> SubstrateBSDF, data |-> SubstrateData,
     adjoint |-> q.adjoint, cosine_mult |-> FALSE,
     shading_basis |-> q.shading_basis,
     outgoing |-> q.outgoing, incoming |-> q.incoming, modes |-> q.modes]
ExpectedPdfCall(q) ==
    [fn |-> "bsdf.evaluate_pdf", bsdf |-> SubstrateBSDF, data |-> SubstrateData,
     shading_basis |-> q.shading_basis,
     outgoing |-> q.outgoing, incoming |-> q.incoming, modes |-> q.modes]

\* the Fresnel spectrum of the configured policy and its saturated maximum
ExpectedFresnel ==
    IF values.m_fresnel_mode = Dielectric THEN world.fresnel
    ELSE [c \in Channels |-> RMul(world.fresnel[c], values.m_reflectance[c])]
ExpectedLayerWeight ==
    LET mx == IF RLess(ExpectedFresnel[1], ExpectedFresnel[2])
              THEN ExpectedFresnel[2] ELSE ExpectedFresnel[1]
    IN  IF RLess(One, mx) THEN One ELSE IF RLess(mx, Zero) THEN Zero ELSE mx

\* the half vector of a query, oriented to local y >= 0
ExpectedHalfVector(q) ==
    LET sum == VAdd(LocalWi(q), LocalWo(q))
    IN  CHOOSE b \in BaseDirs :
          /\ ICross(b, sum) = 0
          /\ b[2] >= 0
          /\ (b[2] = 0 => IDot(b, sum) > 0)

\* pdf_M / |4 (wo . m)|, zero when wo . m is zero
ExpectedReflectionDensity(wo, m) ==
    IF IDot(wo, m) = 0 THEN Zero
    ELSE RDiv(world.mdf_pdf, Rat(4 * AbsInt(IDot(wo, m)), UnitLen * UnitLen))

\* Fresnel spectrum times D G / |4 wo.y wi.y|, zero when the denominator is zero
ExpectedCoatingValue(wi, wo) ==
    IF wi[2] * wo[2] = 0 THEN Black
    ELSE [c \in Channels |->
            RDiv(RMul(ExpectedFresnel[c], RMul(world.mdf_D, world.mdf_G)),
                 Rat(4 * AbsInt(wi[2] * wo[2]), UnitLen * UnitLen))]

\* C1: when the mask excludes glossy scattering or wi.y * wo.y < 0, evaluate
\* returns exactly the substrate's evaluate (value and density, called once
\* with the same outgoing, incoming and mask and cosine multiplication off)
\* and evaluate_pdf returns exactly the substrate's evaluate_pdf.
C1_GatedForwardsToSubstrate ==
    /\ (ev.done /\ GatedOut(ev.q)) =>
          /\ ev.value = world.sub_value
          /\ ev.probability = world.sub_density
          /\ ev.calls = << ExpectedEvaluateCall(ev.q) >>
    /\ (pd.done /\ GatedOut(pd.q)) =>
          /\ pd.probability = world.sub_pdf
          /\ pd.calls = << ExpectedPdfCall(pd.q) >>

C1_Witness ==
    /\ ev.done /\ pd.done
    /\ "Glossy" \in ev.q.modes /\ OppositeHemispheres(ev.q)
    /\ "Glossy" \in pd.q.modes /\ OppositeHemispheres(pd.q)
    /\ world.sub_density # Zero
    /\ ExpectedLayerWeight = Half

\* C2: when evaluate is not gated out, the value is
\* coating_value + substrate_value * (1 - layer_weight), the density is
\* layer_weight * reflection_density(wo, m) + substrate_density * (1 - layer_weight)
\* with m the half vector oriented to y >= 0, and the substrate is evaluated
\* exactly once, with cosine multiplication off.
C2_UngatedBlend ==
    (ev.done /\ ~GatedOut(ev.q)) =>
        LET wi == LocalWi(ev.q)
            wo == LocalWo(ev.q)
            m == ExpectedHalfVector(ev.q)
            lw == ExpectedLayerWeight
            cv == ExpectedCoatingValue(wi, wo)
        IN  /\ \A c \in Channels :
                 ev.value[c] = RAdd(cv[c], RMul(world.sub_value[c], RSub(One, lw)))
            /\ ev.probability =
                 RAdd(RMul(lw, ExpectedReflectionDensity(wo, m)),
                      RMul(world.sub_density, RSub(One, lw)))
            /\ Cardinality(CallsTo(ev.calls, "bsdf.evaluate")) = 1
            /\ \A i \in CallsTo(ev.calls, "bsdf.evaluate") :
                 ev.calls[i] = ExpectedEvaluateCall(ev.q)
            /\ \A i \in DOMAIN ev.calls :
                 "h" \in DOMAIN ev.calls[i] => ev.calls[i].h = m

C2_Witness ==
    /\ ev.done /\ ~GatedOut(ev.q)
    /\ LocalWi(ev.q)[2] * LocalWo(ev.q)[2] > 0
    /\ LocalWo(ev.q)[2] < 0
    /\ ExpectedLayerWeight = Half
    /\ world.mdf_D # Zero /\ world.mdf_pdf # Zero
    /\ world.sub_density # Zero /\ world.sub_value # Black

\* C3: evaluate_pdf returns the density evaluate returns for the same
\* arguments, gated or not, provided the substrate's evaluate_pdf equals the
\* density of its evaluate; both ask the Fresnel functor and the distribution
\* the same questions.
C3_PdfMatchesEvaluate ==
    (ev.done /\ pd.done /\ ev.q = pd.q /\ world.sub_pdf = world.sub_density) =>
        /\ pd.probability = ev.probability
        /\ \A fn \in {"FresnelDielectricFun", "FresnelFriendlyConductorFun", "mdf.pdf"} :
             { ev.calls[i] : i \in CallsTo(ev.calls, fn) }
               = { pd.calls[i] : i \in CallsTo(pd.calls, fn) }

C3_Witness ==
    /\ ev.done /\ pd.done /\ ev.q = pd.q
    /\ ~GatedOut(ev.q)
    /\ world.sub_pdf = world.sub_density /\ world.sub_density # Zero
    /\ ExpectedLayerWeight = Half
    /\ world.mdf_pdf # Zero

\* the pair evaluate was given is the pair the last sample() produced
EvaluatedSampledPair ==
    /\ sm.done /\ ev.done
    /\ ev.q.shading_basis = sample.m_shading_basis
    /\ ev.q.outgoing = sample.m_outgoing
    /\ ev.q.incoming = sample.m_incoming

\* C4: for the pair a coating-branch sample produced, the density evaluate
\* returns is at least the coating-only reflection density the sample stored
\* as its probability.
C4_EvaluateAtLeastSampledDensity ==
    (EvaluatedSampledPair /\ sm.branch = "coating" /\ ~sm.null) =>
        RLeq(sample.m_probability, ev.probability)

\* what does hold of the code: evaluate's density is at least the stored
\* density weighted by the layer weight
C4_EvaluateAtLeastWeightedDensity ==
    (EvaluatedSampledPair /\ sm.branch = "coating" /\ ~sm.null) =>
        RLeq(RMul(sm.layer_probability, sample.m_probability), ev.probability)

\* C5 as stated: in every call of evaluate and evaluate_pdf, for any mask and
\* any pair, the substrate's value and density enter the result scaled by
\* exactly (1 - layer_probability), the coating adding its own share only
\* when the call is not gated out.
C5_SubstrateAlwaysScaled ==
    LET lp == ExpectedLayerWeight
    IN  /\ ev.done =>
              LET cd == IF GatedOut(ev.q) THEN Zero
                        ELSE RMul(lp, ExpectedReflectionDensity(LocalWo(ev.q),
                                                  ExpectedHalfVector(ev.q)))
                  cv == IF GatedOut(ev.q) THEN Black
                        ELSE ExpectedCoatingValue(LocalWi(ev.q), LocalWo(ev.q))
              IN  /\ ev.probability = RAdd(cd, RMul(world.sub_density, RSub(One, lp)))
                  /\ \A c \in Channels :
                       ev.value[c] = RAdd(cv[c], RMul(world.sub_value[c], RSub(One, lp)))
        /\ pd.done =>
              LET cd == IF GatedOut(pd.q) THEN Zero
                        ELSE RMul(lp, ExpectedReflectionDensity(LocalWo(pd.q),
                                                  ExpectedHalfVector(pd.q)))
              IN  pd.probability = RAdd(cd, RMul(world.sub_pdf, RSub(One, lp)))

\* C5 amended: in every call of evaluate and evaluate_pdf that is not gated
\* out, the substrate's value and density enter the result scaled by exactly
\* (1 - layer_probability), with layer_probability in [0, 1]; in a gated call
\* they are returned unscaled.
C5_SubstrateScaledWhenUngated ==
    LET lp == ExpectedLayerWeight
        sw == RSub(One, lp)
    IN  /\ RLeq(Zero, lp) /\ RLeq(lp, One) /\ RAdd(lp, sw) = One
        /\ (ev.done /\ ~GatedOut(ev.q)) =>
              /\ RSub(ev.probability,
                      RMul(lp, ExpectedReflectionDensity(LocalWo(ev.q),
                                                         ExpectedHalfVector(ev.q))))
                   = RMul(world.sub_density, sw)
              /\ \A c \in Channels :
                   RSub(ev.value[c],
                        ExpectedCoatingValue(LocalWi(ev.q), LocalWo(ev.q))[c])
                     = RMul(world.sub_value[c], sw)
        /\ (pd.done /\ ~GatedOut(pd.q)) =>
              RSub(pd.probability,
                   RMul(lp, ExpectedReflectionDensity(LocalWo(pd.q),
                                                      ExpectedHalfVector(pd.q))))
                = RMul(world.sub_pdf, sw)
        /\ (ev.done /\ GatedOut(ev.q)) =>
              ev.probability = world.sub_density /\ ev.value = world.sub_value
        /\ (pd.done /\ GatedOut(pd.q)) => pd.probability = world.sub_pdf

C5_Witness ==
    /\ ev.done /\ pd.done /\ ~GatedOut(ev.q) /\ ~GatedOut(pd.q)
    /\ ExpectedLayerWeight = Half
    /\ world.sub_density = <<5, 1>> /\ world.sub_pdf = <<1, 4>>
    /\ world.mdf_pdf # Zero
    /\ pd.probability # ev.probability

\* the fourth random of the block the last sample() drew, and the local
\* directions it worked with
FourthRandom == sm.cursor.stream[sm.cursor.pos + 4]
SampleWo == transform_to_local(sm.before.m_shading_basis, sm.before.m_outgoing)
SampleWi == reflect(SampleWo, sm.m)
CoatingCalls == CallsTo(sm.calls, "mdf.D") \cup CallsTo(sm.calls, "mdf.G")
                  \cup CallsTo(sm.calls, "mdf.pdf")

\* C6: every sample call executes exactly one branch: the coating branch iff
\* the fourth random is strictly less than layer_probability, otherwise the
\* substrate branch; the substrate's sampler is called exactly once in the
\* substrate branch (cosine multiplication off) and never in the coating
\* branch; the coating's reflection value and density are computed only in
\* the coating branch; the distribution is sampled once and the Fresnel term
\* computed once.
C6_ExactlyOneBranch ==
    sm.done =>
        /\ sm.branch \in {"coating", "substrate"}
        /\ (sm.branch = "coating") <=> RLess(FourthRandom, ExpectedLayerWeight)
        /\ sm.branch = "substrate" =>
              /\ Cardinality(CallsTo(sm.calls, "bsdf.sample")) = 1
              /\ \A i \in CallsTo(sm.calls, "bsdf.sample") :
                   /\ sm.calls[i].cosine_mult = FALSE
                   /\ sm.calls[i].adjoint = args.adjoint
                   /\ sm.calls[i].bsdf = SubstrateBSDF
                   /\ sm.calls[i].data = SubstrateData
              /\ CoatingCalls = {}
              /\ sample.m_differentials = sm.before.m_differentials
        /\ sm.branch = "coating" => CallsTo(sm.calls, "bsdf.sample") = {}
        /\ Cardinality(CallsTo(sm.calls, "mdf.sample")) = 1
        /\ Cardinality(CallsTo(sm.calls, "FresnelDielectricFun")
                         \cup CallsTo(sm.calls, "FresnelFriendlyConductorFun")) = 1

C6_Witness ==
    /\ sm.done /\ sm.branch = "substrate"
    /\ FourthRandom = Half /\ ExpectedLayerWeight = Half
    /\ sample.m_mode = "Diffuse"

\* C7: every sample call draws exactly four randoms from the caller's cursor,
\* as one block, before the branch is chosen and before the cursor is handed
\* to the substrate: the first three go to the distribution's sampler, the
\* fourth chooses the branch, and the cursor the substrate receives (or the
\* caller gets back from the coating branch) stands four positions further,
\* whichever branch executes.
C7_FourRandomsOneBlock ==
    sm.done =>
        /\ sm.s = [i \in 1 .. 4 |-> sm.cursor.stream[sm.cursor.pos + i]]
        /\ sm.calls[1] =
             [fn |-> "mdf.sample",
              mdf |-> IF values.m_distribution = Beckmann THEN "BeckmannMDF" ELSE "GGXMDF",
              outgoing |-> SampleWo,
              s |-> [i \in 1 .. 3 |-> sm.cursor.stream[sm.cursor.pos + i]],
              alpha_x |-> values.m_precomputed.m_alpha_x,
              alpha_y |-> values.m_precomputed.m_alpha_y]
        /\ sm.m = world.mdf_sample
        /\ (sm.branch = "coating") <=> RLess(sm.s[4], sm.layer_probability)
        /\ sm.branch = "coating" =>
              sampling_context = [sm.cursor EXCEPT !.pos = sm.cursor.pos + 4]
        /\ sm.branch = "substrate" =>
              /\ \A i \in CallsTo(sm.calls, "bsdf.sample") :
                   sm.calls[i].sampling_context
                     = [sm.cursor EXCEPT !.pos = sm.cursor.pos + 4]
              /\ sampling_context.pos = sm.cursor.pos + 4 + world.sub_draws
              /\ sampling_context.stream = sm.cursor.stream

C7_Witness ==
    /\ sm.done /\ sm.branch = "substrate"
    /\ sm.cursor.pos = 1 /\ world.sub_draws = 2
    /\ sm.s[1] # sm.s[4] /\ sm.s[2] # sm.s[3]

\* C9: when sample takes the coating branch and wi.y * wo.y <= 0, the
\* sample's incoming direction, probability and scattering mode are left as
\* the caller passed them, no ray differentials are computed, the substrate
\* is not called, and the only field written is the spectral value, which
\* holds the Fresnel weight of the layer-selection step.
C9_NullSampleLeavesSample ==
    (sm.done /\ RLess(FourthRandom, ExpectedLayerWeight)
       /\ SampleWi[2] * SampleWo[2] <= 0) =>
        /\ sample = [sm.before EXCEPT !.m_value = ExpectedFresnel]
        /\ CallsTo(sm.calls, "bsdf.sample") = {}
        /\ CoatingCalls = {}

C9_Witness ==
    /\ sm.done /\ RLess(FourthRandom, ExpectedLayerWeight)
    /\ SampleWi[2] * SampleWo[2] < 0
    /\ sm.before.m_mode = "Specular" /\ sm.before.m_probability = <<7, 1>>
    /\ sample.m_value # sm.before.m_value
    /\ world.sub_sample.m_mode = "Diffuse"

\* prepare_inputs has run on the buffer (to its end, or as far as line 143)
Ran == status # "unprepared"

\* roughness^2 and (2 anisotropy - 1)^2 of the buffer, as integers over the
\* denominators rd^2 and ad^2
AlphaOf(v) == Rat(v.m_roughness[1] * v.m_roughness[1],
                  v.m_roughness[2] * v.m_roughness[2])
StretchOf(v) ==
    LET n == 2 * v.m_anisotropy[1] - v.m_anisotropy[2]
    IN  Rat(n * n, v.m_anisotropy[2] * v.m_anisotropy[2])
\* alpha + t (1 - alpha)
StretchedOf(v) == RAdd(AlphaOf(v), RMul(StretchOf(v), RSub(One, AlphaOf(v))))

Layered(i) == closures[i].cid >= FirstLayeredClosure
InjectCalls == CallsTo(calls, "inject_layered_closure_values")

\* C10: prepare_inputs sets the widths, builds the substrate closure tree,
\* injects into every top-level entry whose tag is at least
\* FirstLayeredClosure and into no other, in entry order, and only then
\* calls the substrate's prepare_inputs, exactly once, on the substrate
\* closure buffer; the non-null assertion on the substrate comes before the
\* first injection, and nothing is injected or prepared when it fails.
C10_PrepareOrder ==
    /\ status = "prepared" =>
          /\ values.m_precomputed = Precomputed(values)
          /\ values.m_substrate_closure_data = SubstrateData
          /\ calls[1].fn = "osl_mem_alloc"
          /\ calls[2] = [fn |-> "CompositeSurfaceClosure", raw |-> values.m_substrate]
          /\ Len(closures) = Len(values.m_substrate)
          /\ \A i \in DOMAIN closures :
               /\ closures[i].cid = values.m_substrate[i]
               /\ closures[i].m_injected =
                    IF Layered(i) THEN values.m_osl_bsdf ELSE NullBSDF
          /\ { calls[k].entry : k \in InjectCalls } = { i \in DOMAIN closures : Layered(i) }
          /\ Cardinality(InjectCalls) = Cardinality({ i \in DOMAIN closures : Layered(i) })
          /\ \A j, k \in InjectCalls : j < k => calls[j].entry < calls[k].entry
          /\ \A k \in InjectCalls :
               /\ calls[k].cid = closures[calls[k].entry].cid
               /\ calls[k].bsdf = values.m_osl_bsdf
          /\ CallsTo(calls, "prepare_inputs") = { Len(calls) }
          /\ calls[Len(calls)] = [fn |-> "prepare_inputs", bsdf |-> values.m_osl_bsdf,
                                  data |-> SubstrateData]
          /\ values.m_osl_bsdf # NullBSDF
          /\ ~world.NDEBUG =>
               /\ calls[3] = [fn |-> "assert", bsdf |-> values.m_osl_bsdf]
               /\ \A k \in InjectCalls : k > 3
    /\ status = "aborted" =>
          /\ values.m_osl_bsdf = NullBSDF /\ ~world.NDEBUG
          /\ InjectCalls = {} /\ CallsTo(calls, "prepare_inputs") = {}
          /\ \A i \in DOMAIN closures : closures[i].m_injected = NullBSDF

C10_Witness ==
    /\ status = "prepared" /\ ~world.NDEBUG
    /\ Len(closures) = 3
    /\ ~Layered(1) /\ Layered(2) /\ Layered(3)
    /\ closures[2].cid = FirstLayeredClosure
    /\ Len(calls) = 6

====
